---- MODULE Spec2Model ----
(***************************************************************************)
(* A model of the multi-label scoring engine of testchallenge/scoring.py:  *)
(* the Binarizer, precision_recall, jaccard_index, parse_solution_file and *)
(* the score() pipeline.                                                   *)
(*                                                                         *)
(* Conventions.                                                            *)
(*   - A Python list is a TLA+ sequence; Python's 0-based positions are    *)
(*     kept in the dicts (_index, _reverse_index) and shifted by one when  *)
(*     a sequence is subscripted.                                          *)
(*   - A str is a TLA+ string; its ordering is that of its code points,    *)
(*     read from CodePoints.                                               *)
(*   - A float is a record [num, den] holding a reduced non-negative       *)
(*     fraction; den = 0 is a non-finite value: NaN is 0/0, inf is 1/0.    *)
(*     Rounding of IEEE doubles is not modelled.                           *)
(*   - A numpy value is a record [shape, data]: shape is <<>> for a scalar, *)
(*     <<n>> for a vector and <<r, c>> for a matrix, and data holds the    *)
(*     elements in row-major order.                                        *)
(*   - An operation that can raise returns [exc, val]: exc is "none" or    *)
(*     the exception's class name.                                         *)
(***************************************************************************)
EXTENDS Integers, Sequences, FiniteSets, TLC

VARIABLES
    binarizer,      \* the Binarizer object: [classes, _index, _reverse_index]
    op,             \* unit specifications: the function last called
    args,           \* unit specifications: the arguments of the call
    ret,            \* unit specifications: what the call returned or raised
    pc,             \* score(): the statement about to execute
    output_file,    \* score(): whether -O/--output-file was given
    solution_ids, solution_classes, bin_solution,
    prediction_ids, prediction_classes, bin_prediction,
    overall_result, result,
    stdout,         \* score(): the lines printed so far
    json_file,      \* score(): the document written to the output file
    raised,         \* score(): the uncaught exception that ended the run
    exit_status,    \* score(): <<>> while running, then <<status>>
    pr_calls,       \* score(): the number of precision_recall calls made
    history         \* score(): the statements executed so far, in order

vars == <<binarizer, op, args, ret, pc, output_file, solution_ids,
          solution_classes, bin_solution, prediction_ids, prediction_classes,
          bin_prediction, overall_result, result, stdout, json_file, raised,
          exit_status, pr_calls, history>>

harness_vars == <<op, args, ret>>

score_vars == <<pc, output_file, solution_ids, solution_classes, bin_solution,
                prediction_ids, prediction_classes, bin_prediction,
                overall_result, result, stdout, json_file, raised, exit_status,
                pr_calls, history>>

(***************************************************************************)
(* Bounds of the model.                                                    *)
(***************************************************************************)
MaxClasses == 3     \* longest `classes` argument given to Binarizer()
MaxLabels == 2      \* longest label list of one item
MaxRows == 2        \* most rows of a matrix given to the metric functions
MaxCols == 2        \* most columns of a matrix given to the metric functions
MaxCells == 6       \* most cells of a matrix given to the metric functions
MaxFileRows == 2    \* most rows after the header of an input file
MaxDataRows == 3    \* most records of a dataset that is reduced block by block

(***************************************************************************)
(* Generic helpers.                                                        *)
(***************************************************************************)
Range(s) == {s[i] : i \in 1..Len(s)}

SeqsUpTo(S, n) == UNION {[1..k -> S] : k \in 0..n}

Min2(a, b) == IF a <= b THEN a ELSE b

RECURSIVE SumSeq(_)
SumSeq(s) == IF Len(s) = 0 THEN 0 ELSE Head(s) + SumSeq(Tail(s))

RECURSIVE GCD(_, _)
GCD(a, b) == IF b = 0 THEN a ELSE GCD(b, a % b)

(***************************************************************************)
(* Strings: Python compares str values code point by code point.           *)
(***************************************************************************)
CodePoints(s) ==
    CASE s = "A" -> <<65>>
      [] s = "B" -> <<66>>
      [] s = "C" -> <<67>>
      [] s = "D" -> <<68>>
      [] s = "A549" -> <<65, 53, 52, 57>>
      [] s = "CACO-2" -> <<67, 65, 67, 79, 45, 50>>
      [] s = "HEK 293" -> <<72, 69, 75, 32, 50, 57, 51>>
      [] s = "HeLa" -> <<72, 101, 76, 97>>
      [] s = "MCF7" -> <<77, 67, 70, 55>>
      [] s = "PC-3" -> <<80, 67, 45, 51>>
      [] s = "RT4" -> <<82, 84, 52>>
      [] s = "U-2 OS" -> <<85, 45, 50, 32, 79, 83>>
      [] s = "U-251 MG" -> <<85, 45, 50, 53, 49, 32, 77, 71>>
      [] s = "MCF-7" -> <<77, 67, 70, 45, 55>>
      [] s = "id1" -> <<105, 100, 49>>
      [] s = "id2" -> <<105, 100, 50>>

RECURSIVE SeqLess(_, _)
SeqLess(a, b) ==
    IF Len(b) = 0 THEN FALSE
    ELSE IF Len(a) = 0 THEN TRUE
    ELSE IF Head(a) # Head(b) THEN Head(a) < Head(b)
    ELSE SeqLess(Tail(a), Tail(b))

StrLess(s, t) == SeqLess(CodePoints(s), CodePoints(t))

\* sorted(set(xs)) for a list of str
RECURSIVE SortedOfSet(_)
SortedOfSet(S) ==
    IF S = {} THEN <<>>
    ELSE LET m == CHOOSE x \in S : \A y \in S \ {x} : StrLess(x, y)
         IN <<m>> \o SortedOfSet(S \ {m})

sorted_set(xs) == SortedOfSet(Range(xs))

(***************************************************************************)
(* Python values and builtins.                                             *)
(***************************************************************************)
\* An item handed to bin_label is a str or a list of str; the tag is what
\* isinstance() reads (collections.Iterable, as it exists in the Python 3.5 and
\* 3.6 that setup.py declares).
PyStr(s) == [type |-> "str", v |-> s]

PyList(xs) == [type |-> "list", v |-> xs]

\* range(n)
range_(n) == [i \in 1..n |-> i - 1]

\* dict(zip(keys, values)): zip stops at the shorter; a later pair replaces an
\* earlier one with the same key
dict_zip(keys, values) ==
    LET n == Min2(Len(keys), Len(values))
    IN [k \in {keys[i] : i \in 1..n} |->
            values[CHOOSE i \in 1..n :
                       keys[i] = k /\ \A j \in (i + 1)..n : keys[j] # k]]

(***************************************************************************)
(* class Binarizer                                                         *)
(***************************************************************************)
\* A planted fault for the vocabulary claims: the classes are deduplicated but
\* kept in their order of first appearance instead of being sorted.
RECURSIVE FirstSeen(_)
FirstSeen(xs) ==
    IF Len(xs) = 0 THEN <<>>
    ELSE LET rest == FirstSeen(SubSeq(xs, 1, Len(xs) - 1))
             x == xs[Len(xs)]
         IN IF x \in Range(rest) THEN rest ELSE Append(rest, x)

Binarizer_unsorted(classes) ==
    LET cs == FirstSeen(classes)
    IN [classes |-> cs,
        _index |-> dict_zip(cs, range_(Len(cs))),
        _reverse_index |-> dict_zip(range_(Len(cs)), cs)]

\* Binarizer.__init__
Binarizer(classes) ==
    LET cs == sorted_set(classes)
    IN [classes |-> cs,
        _index |-> dict_zip(cs, range_(Len(cs))),
        _reverse_index |-> dict_zip(range_(Len(cs)), cs)]

\* the labels bin_label looks up in self._index, in the order it does
bin_label_keys(item) == IF item.type = "list" THEN item.v ELSE <<item.v>>

\* bin_[self._index[class_]] = 1 for each class_ in turn
RECURSIVE bin_label_loop(_, _, _)
bin_label_loop(self, bin_, keys) ==
    IF Len(keys) = 0 THEN [exc |-> "none", val |-> bin_]
    ELSE IF Head(keys) \notin DOMAIN self._index
         THEN [exc |-> "KeyError", val |-> Head(keys)]
    ELSE bin_label_loop(
             self,
             [bin_ EXCEPT ![self._index[Head(keys)] + 1] = 1],
             Tail(keys))

\* A planted fault for the encoding claim: the loop over a multi-label item
\* ends after its first label.
bin_label_first_only(self, item) ==
    LET keys == bin_label_keys(item)
    IN bin_label_loop(self, [i \in 1..Len(self.classes) |-> 0],
                      SubSeq(keys, 1, Min2(1, Len(keys))))

\* Binarizer.bin_label
bin_label(self, item) ==
    bin_label_loop(self, [i \in 1..Len(self.classes) |-> 0], bin_label_keys(item))

\* Binarizer.binarize (also Binarizer.__call__)
RECURSIVE binarize_loop(_, _, _)
binarize_loop(self, binarized, to_bin) ==
    IF Len(to_bin) = 0 THEN [exc |-> "none", val |-> binarized]
    ELSE LET bin_ == bin_label(self, Head(to_bin))
         IN IF bin_.exc # "none" THEN bin_
            ELSE binarize_loop(self, Append(binarized, bin_.val), Tail(to_bin))

binarize(self, to_bin) == binarize_loop(self, <<>>, to_bin)

\* Binarizer.unbin_label: the loop variable idx runs over the VALUES of the
\* vector (0 or 1), and a truthy value is itself the key looked up in
\* self._reverse_index.
RECURSIVE unbin_label_loop(_, _, _)
unbin_label_loop(self, unbin, item) ==
    IF Len(item) = 0 THEN [exc |-> "none", val |-> unbin]
    ELSE LET idx == Head(item)
         IN IF idx = 0 THEN unbin_label_loop(self, unbin, Tail(item))
            ELSE IF idx \notin DOMAIN self._reverse_index
                 THEN [exc |-> "KeyError", val |-> idx]
            ELSE unbin_label_loop(
                     self, Append(unbin, self._reverse_index[idx]), Tail(item))

unbin_label(self, item) == unbin_label_loop(self, <<>>, item)

\* Binarizer.unbinarize
RECURSIVE unbinarize_loop(_, _, _)
unbinarize_loop(self, unbinarized, from_bin) ==
    IF Len(from_bin) = 0 THEN [exc |-> "none", val |-> unbinarized]
    ELSE LET u == unbin_label(self, Head(from_bin))
         IN IF u.exc # "none" THEN u
            ELSE unbinarize_loop(self, Append(unbinarized, u.val), Tail(from_bin))

unbinarize(self, from_bin) == unbinarize_loop(self, <<>>, from_bin)

\* Binarizer.__len__
binarizer_len(self) == Len(self.classes)

(***************************************************************************)
(* Floats.                                                                 *)
(***************************************************************************)
NaN == [num |-> 0, den |-> 0]

Inf == [num |-> 1, den |-> 0]

\* the float n/d for integers n >= 0, d > 0
Frac(n, d) == LET g == GCD(n, d) IN [num |-> n \div g, den |-> d \div g]

Float(n) == [num |-> n, den |-> 1]

isnan(x) == x.den = 0 /\ x.num = 0

isfinite(x) == x.den # 0

\* x * y
float_mul(x, y) ==
    IF isnan(x) \/ isnan(y) THEN NaN
    ELSE IF ~isfinite(x) \/ ~isfinite(y)
         THEN (IF x.num = 0 \/ y.num = 0 THEN NaN ELSE Inf)
    ELSE Frac(x.num * y.num, x.den * y.den)

\* x + y
float_add(x, y) ==
    IF isnan(x) \/ isnan(y) THEN NaN
    ELSE IF ~isfinite(x) \/ ~isfinite(y) THEN Inf
    ELSE Frac(x.num * y.den + y.num * x.den, x.den * y.den)

\* x / y under np.errstate(divide='ignore', invalid='ignore'): no exception,
\* 0/0 is nan and a positive x over 0 is inf
float_div(x, y) ==
    IF isnan(x) \/ isnan(y) THEN NaN
    ELSE IF ~isfinite(x) THEN (IF isfinite(y) THEN Inf ELSE NaN)
    ELSE IF ~isfinite(y) THEN Float(0)
    ELSE IF y.num = 0 THEN (IF x.num = 0 THEN NaN ELSE Inf)
    ELSE Frac(x.num * y.den, x.den * y.num)

(***************************************************************************)
(* numpy.                                                                  *)
(***************************************************************************)
np_scalar(x) == [shape |-> <<>>, data |-> <<x>>]

np_vector(xs) == [shape |-> <<Len(xs)>>, data |-> xs]

RECURSIVE Flatten(_)
Flatten(rows) == IF Len(rows) = 0 THEN <<>> ELSE Head(rows) \o Flatten(Tail(rows))

\* np.asarray of a list of equal-length lists; the empty list is the 1-d
\* array of shape (0,)
np_asarray(rows) ==
    IF Len(rows) = 0 THEN [shape |-> <<0>>, data |-> <<>>]
    ELSE [shape |-> <<Len(rows), Len(rows[1])>>, data |-> Flatten(rows)]

\* np.isscalar
np_isscalar(a) == Len(a.shape) = 0

bool_int(b) == IF b THEN 1 ELSE 0

\* Broadcasting, as every binary numpy operation applies it to its two
\* operands: the shapes are aligned at their last dimension, the shorter one
\* padded with 1s, and two dimensions agree when they are equal or one of
\* them is 1.  Arrays here have at most two dimensions.
np_pad2(shape) ==
    CASE Len(shape) = 0 -> <<1, 1>>
      [] Len(shape) = 1 -> <<1, shape[1]>>
      [] OTHER -> shape

np_broadcastable(s, t) ==
    \/ s = t
    \/ \A d \in 1..2 :
           np_pad2(s)[d] = np_pad2(t)[d] \/ np_pad2(s)[d] = 1 \/ np_pad2(t)[d] = 1

np_broadcast_shape(s, t) ==
    IF s = t THEN s
    ELSE
    LET dim(d) == IF np_pad2(s)[d] = 1 THEN np_pad2(t)[d] ELSE np_pad2(s)[d]
        ndim == IF Len(s) > Len(t) THEN Len(s) ELSE Len(t)
    IN SubSeq(<<dim(1), dim(2)>>, 3 - ndim, 2)

\* the operand a as the operation reads it at the broadcast shape: an element
\* along a dimension of length 1 is read again for every index
np_broadcast_to(a, shape) ==
    IF a.shape = shape THEN a
    ELSE LET from == np_pad2(a.shape)
             to == np_pad2(shape)
             at(n) == LET i == (n - 1) \div to[2]
                          j == (n - 1) % to[2]
                      IN (IF from[1] = 1 THEN 0 ELSE i) * from[2]
                             + (IF from[2] = 1 THEN 0 ELSE j) + 1
         IN [shape |-> shape,
             data |-> [n \in 1..(to[1] * to[2]) |-> a.data[at(n)]]]

\* np.logical_and(x, y) of two arrays of one shape: booleans, kept as 0/1
\* since np.sum counts them
np_logical_and(x, y) ==
    [shape |-> x.shape,
     data |-> [i \in 1..Len(x.data) |-> bool_int(x.data[i] # 0 /\ y.data[i] # 0)]]

\* np.subtract(x, y) of two arrays of one shape
np_subtract(x, y) ==
    [shape |-> x.shape, data |-> [i \in 1..Len(x.data) |-> x.data[i] - y.data[i]]]

\* x < 0
np_less_0(x) ==
    [shape |-> x.shape, data |-> [i \in 1..Len(x.data) |-> bool_int(x.data[i] < 0)]]

\* x > 0
np_greater_0(x) ==
    [shape |-> x.shape, data |-> [i \in 1..Len(x.data) |-> bool_int(x.data[i] > 0)]]

\* A planted fault for the merge claim: np.any in the place of np.sum, which
\* tells whether a cell is set and not how many are.
np_sum_any(a, axis) ==
    IF axis = "None" \/ Len(a.shape) < 2
    THEN [shape |-> <<>>, data |-> <<Min2(1, SumSeq(a.data))>>]
    ELSE LET r == a.shape[1]
             c == a.shape[2]
         IN [shape |-> <<c>>,
             data |-> [j \in 1..c |->
                          Min2(1, SumSeq([k \in 1..r |-> a.data[(k - 1) * c + j]]))]]

\* np.sum(a, axis=axis): axis is "None" or "0".  Over axis 0 a matrix gives
\* the vector of its column sums and a vector gives a scalar.
np_sum(a, axis) ==
    IF axis = "None" \/ Len(a.shape) < 2 THEN np_scalar(SumSeq(a.data))
    ELSE LET r == a.shape[1]
             c == a.shape[2]
         IN np_vector([j \in 1..c |->
                          SumSeq([k \in 1..r |-> a.data[(k - 1) * c + j]])])

\* x + y of two integer arrays of one shape
np_add(x, y) ==
    [shape |-> x.shape, data |-> [i \in 1..Len(x.data) |-> x.data[i] + y.data[i]]]

\* x / y of two integer arrays of one shape: true division, giving floats
np_true_divide(x, y) ==
    [shape |-> x.shape,
     data |-> [i \in 1..Len(x.data) |->
                  float_div(Float(x.data[i]), Float(y.data[i]))]]

\* a[~np.isfinite(a)] = 0
np_mask_nonfinite(a) ==
    [shape |-> a.shape,
     data |-> [i \in 1..Len(a.data) |->
                  IF isfinite(a.data[i]) THEN a.data[i] ELSE Float(0)]]

\* 2 * (p * r) / (p + r) of two float arrays of one shape
np_f1(p, r) ==
    [shape |-> p.shape,
     data |-> [i \in 1..Len(p.data) |->
                  float_div(float_mul(Float(2), float_mul(p.data[i], r.data[i])),
                            float_add(p.data[i], r.data[i]))]]

\* np.where(item)[0] as a set: the 0-based positions of the nonzero elements
np_where_set(item) == {i - 1 : i \in {k \in 1..Len(item) : item[k] # 0}}

(***************************************************************************)
(* precision_recall                                                        *)
(***************************************************************************)
\* A planted fault for the confusion-count claim: the two signs of the
\* difference are taken the wrong way round.
confusion_counts_swapped(prediction, actual, axis) ==
    LET shape == np_broadcast_shape(np_asarray(prediction).shape,
                                    np_asarray(actual).shape)
        p == np_broadcast_to(np_asarray(prediction), shape)
        a == np_broadcast_to(np_asarray(actual), shape)
        false == np_subtract(a, p)
    IN [truepos |-> np_sum(np_logical_and(p, a), axis),
        falsepos |-> np_sum(np_greater_0(false), axis),
        falseneg |-> np_sum(np_less_0(false), axis)]

\* lines 38-45: the confusion counts (truepos, falsepos, falseneg), of two
\* operands numpy can broadcast to one shape
confusion_counts(prediction, actual, axis) ==
    LET shape == np_broadcast_shape(np_asarray(prediction).shape,
                                    np_asarray(actual).shape)
        p == np_broadcast_to(np_asarray(prediction), shape)
        a == np_broadcast_to(np_asarray(actual), shape)
        false == np_subtract(a, p)
    IN [truepos |-> np_sum(np_logical_and(p, a), axis),
        falsepos |-> np_sum(np_less_0(false), axis),
        falseneg |-> np_sum(np_greater_0(false), axis)]

\* lines 48-52: precision and recall, non-finite values of an array zeroed
precision_of(counts) ==
    LET precision == np_true_divide(counts.truepos,
                                    np_add(counts.truepos, counts.falsepos))
    IN IF ~np_isscalar(precision) THEN np_mask_nonfinite(precision) ELSE precision

recall_of(counts) ==
    LET recall == np_true_divide(counts.truepos,
                                 np_add(counts.truepos, counts.falseneg))
    IN IF ~np_isscalar(recall) THEN np_mask_nonfinite(recall) ELSE recall

\* line 55
f1_score_of(precision, recall) == np_f1(precision, recall)

precision_recall(prediction, actual, include_f1, mode) ==
    IF mode \notin {"total", "class"}
    THEN [exc |-> "ValueError", val |-> <<>>, locals |-> <<>>]
    ELSE IF ~np_broadcastable(np_asarray(prediction).shape,
                              np_asarray(actual).shape)
    THEN [exc |-> "ValueError",
          val |-> "operands could not be broadcast together",
          locals |-> <<>>]
    ELSE LET axis == IF mode = "total" THEN "None" ELSE "0"
             counts == confusion_counts(prediction, actual, axis)
             precision == precision_of(counts)
             recall == recall_of(counts)
         IN [exc |-> "none",
             val |-> IF include_f1
                     THEN <<precision, recall, f1_score_of(precision, recall)>>
                     ELSE <<precision, recall>>,
             locals |-> counts]

(***************************************************************************)
(* jaccard_index                                                           *)
(***************************************************************************)
\* the loop of lines 84-94 over zip(y_true, y_predict), from pair k on
RECURSIVE jaccard_loop(_, _, _, _, _)
jaccard_loop(y_true, y_predict, k, numerator, denominator) ==
    IF k > Min2(Len(y_true), Len(y_predict))
    THEN [exc |-> "none", numerator |-> numerator, denominator |-> denominator]
    ELSE LET true_item == y_true[k]
             pred_item == y_predict[k]
         IN IF Len(true_item) # Len(pred_item)
            THEN [exc |-> "ValueError", numerator |-> numerator,
                  denominator |-> denominator]
            ELSE LET true == np_where_set(true_item)
                     pred == np_where_set(pred_item)
                 IN jaccard_loop(y_true, y_predict, k + 1,
                                 numerator + Cardinality(true \cap pred),
                                 denominator + Cardinality(true \cup pred))

\* A planted fault for the micro-average claims: the mean of the records' own
\* ratios (a record with an empty union counting 0) instead of one ratio of
\* the two sums.
RECURSIVE jaccard_ratio_sum(_, _, _)
jaccard_ratio_sum(y_true, y_predict, k) ==
    IF k > Min2(Len(y_true), Len(y_predict)) THEN Float(0)
    ELSE LET true == np_where_set(y_true[k])
             pred == np_where_set(y_predict[k])
             ratio == IF true \cup pred = {} THEN Float(0)
                      ELSE Frac(Cardinality(true \cap pred),
                                Cardinality(true \cup pred))
         IN float_add(ratio, jaccard_ratio_sum(y_true, y_predict, k + 1))

jaccard_index_macro(y_true, y_predict) ==
    LET n == Min2(Len(y_true), Len(y_predict))
    IN IF n = 0 THEN [exc |-> "ZeroDivisionError", val |-> "division by zero"]
       ELSE [exc |-> "none",
             val |-> float_div(jaccard_ratio_sum(y_true, y_predict, 1), Float(n))]

\* A planted fault for the disjointness claim: the numerator accumulates the
\* size of the union instead of that of the intersection.
jaccard_index_union(y_true, y_predict) ==
    LET n == Min2(Len(y_true), Len(y_predict))
        union == SumSeq([k \in 1..n |->
                            Cardinality(np_where_set(y_true[k])
                                            \cup np_where_set(y_predict[k]))])
    IN IF union = 0 THEN [exc |-> "ZeroDivisionError", val |-> "division by zero"]
       ELSE [exc |-> "none", val |-> Frac(union, union)]

\* A planted fault for the zero-union claim: the two sums are divided as
\* floating-point numbers, and 0.0 / 0.0 is nan with no exception.
jaccard_index_nan(y_true, y_predict) ==
    LET acc == jaccard_loop(y_true, y_predict, 1, 0, 0)
    IN IF acc.exc # "none"
       THEN [exc |-> acc.exc, val |-> "Array lengths do not agree"]
       ELSE [exc |-> "none",
             val |-> float_div(Float(acc.numerator), Float(acc.denominator))]

\* numerator / denominator of two Python ints: a zero divisor raises
jaccard_index(y_true, y_predict) ==
    LET acc == jaccard_loop(y_true, y_predict, 1, 0, 0)
    IN IF acc.exc # "none"
       THEN [exc |-> acc.exc, val |-> "Array lengths do not agree"]
       ELSE IF acc.denominator = 0
            THEN [exc |-> "ZeroDivisionError", val |-> "division by zero"]
       ELSE [exc |-> "none", val |-> Frac(acc.numerator, acc.denominator)]

(***************************************************************************)
(* Input spaces of the unit specifications.                                *)
(***************************************************************************)
\* class names a Binarizer is built from
ClassUniverse == {"HeLa", "A549", "HEK 293"}

\* the items bin_label is called on: label lists in any order, with
\* repetitions, and single labels
Items ==
    {PyList(xs) : xs \in SeqsUpTo(ClassUniverse, MaxLabels)}
        \cup {PyStr(c) : c \in ClassUniverse}

\* the vocabularies behind the matrices given to the metric functions
Alphabet == <<"A", "B", "C", "D">>

Matrices(r, c) == [1..r -> [1..c -> {0, 1}]]

\* the concrete scenario of the specification's section 8
ScenarioVocabulary == <<"A", "B", "C">>

ScenarioGoldLabels == <<PyList(<<"A">>), PyList(<<"A", "B">>), PyList(<<"C">>)>>

ScenarioPredictionLabels ==
    <<PyList(<<"A">>), PyList(<<"A">>), PyList(<<"B", "C">>)>>

ScenarioGold == binarize(Binarizer(ScenarioVocabulary), ScenarioGoldLabels).val

ScenarioPrediction ==
    binarize(Binarizer(ScenarioVocabulary), ScenarioPredictionLabels).val

NoReturn == [exc |-> "none", val |-> <<>>]

\* score() is not running in the unit specifications
ScoreIdle ==
    /\ pc = "idle"
    /\ output_file = FALSE
    /\ solution_ids = <<>>
    /\ solution_classes = <<>>
    /\ bin_solution = <<>>
    /\ prediction_ids = <<>>
    /\ prediction_classes = <<>>
    /\ bin_prediction = <<>>
    /\ overall_result = <<>>
    /\ result = <<>>
    /\ stdout = <<>>
    /\ json_file = <<>>
    /\ raised = "none"
    /\ exit_status = <<>>
    /\ pr_calls = 0
    /\ history = <<>>

(***************************************************************************)
(* SpecBinarizer: a Binarizer is constructed from any list of class names, *)
(* then bin_label is called on any item and unbin_label on its result.     *)
(***************************************************************************)
InitBinarizer ==
    /\ \E classes \in SeqsUpTo(ClassUniverse, MaxClasses) :
           /\ binarizer = Binarizer(classes)
           /\ args = [classes |-> classes]
    /\ op = "init"
    /\ ret = NoReturn
    /\ ScoreIdle

CallBinLabel ==
    /\ op = "init"
    /\ \E item \in Items :
           /\ args' = [classes |-> args.classes, item |-> item]
           /\ ret' = bin_label(binarizer, item)
    /\ op' = "bin_label"
    /\ UNCHANGED <<binarizer, score_vars>>

CallUnbinLabel ==
    /\ op = "bin_label"
    /\ ret.exc = "none"
    /\ args' = [classes |-> args.classes, item |-> args.item, bin_ |-> ret.val]
    /\ ret' = unbin_label(binarizer, ret.val)
    /\ op' = "unbin_label"
    /\ UNCHANGED <<binarizer, score_vars>>

NextBinarizer == CallBinLabel \/ CallUnbinLabel

SpecBinarizer == InitBinarizer /\ [][NextBinarizer]_vars

(***************************************************************************)
(* SpecMetrics: precision_recall and jaccard_index are called on any pair  *)
(* of binary matrices of one shape, and on the scenario of section 8.      *)
(***************************************************************************)
InitMetrics ==
    /\ \/ /\ binarizer = Binarizer(ScenarioVocabulary)
          /\ args = [prediction |-> ScenarioPrediction, actual |-> ScenarioGold]
       \/ \E c \in 1..MaxCols, r \in 0..MaxRows :
              /\ r * c <= MaxCells
              /\ binarizer = Binarizer(SubSeq(Alphabet, 1, c))
              /\ \E p \in Matrices(r, c), a \in Matrices(r, c) :
                     args = [prediction |-> p, actual |-> a]
       \/ \E r \in 0..MaxRows :
              /\ binarizer = Binarizer(<<>>)
              /\ \E p \in Matrices(r, 0), a \in Matrices(r, 0) :
                     args = [prediction |-> p, actual |-> a]
    /\ op = "init"
    /\ ret = NoReturn
    /\ ScoreIdle

CallPrecisionRecall ==
    /\ op = "init"
    /\ \E mode \in {"total", "class"}, include_f1 \in BOOLEAN :
           /\ args' = [prediction |-> args.prediction, actual |-> args.actual,
                       include_f1 |-> include_f1, mode |-> mode]
           /\ ret' = precision_recall(args.prediction, args.actual, include_f1, mode)
    /\ op' = "precision_recall"
    /\ UNCHANGED <<binarizer, score_vars>>

CallJaccardIndex ==
    /\ op = "init"
    /\ ret' = jaccard_index(args.actual, args.prediction)
    /\ op' = "jaccard_index"
    /\ UNCHANGED <<binarizer, args, score_vars>>

NextMetrics == CallPrecisionRecall \/ CallJaccardIndex

SpecMetrics == InitMetrics /\ [][NextMetrics]_vars

(***************************************************************************)
(* parse_solution_file                                                     *)
(***************************************************************************)
POSSIBLE_CLASSES ==
    <<"U-251 MG", "HeLa", "PC-3", "A549", "MCF7", "U-2 OS", "HEK 293", "CACO-2",
      "RT4">>

HEADER == <<"filename", "cell_line">>

\* A planted fault for the zero-label claim: a row is too short only when it
\* has no field at all.
RECURSIVE parse_rows_min1(_, _, _)
parse_rows_min1(rows, ids, classes) ==
    IF Len(rows) = 0 THEN [exc |-> "none", val |-> <<ids, classes>>]
    ELSE LET row == Head(rows)
             row_classes == Tail(row)
         IN IF Len(row) < 1
            THEN [exc |-> "ValueError",
                  val |-> [msg |-> "Bad row length", len |-> Len(row), row |-> row]]
            ELSE IF \E k \in 1..Len(row_classes) :
                        row_classes[k] \notin Range(POSSIBLE_CLASSES)
                 THEN [exc |-> "ValueError",
                       val |-> [msg |-> "Unknown class found among",
                                row_classes |-> row_classes],
                       locals |-> [row |-> row]]
            ELSE parse_rows_min1(Tail(rows), Append(ids, row[1]),
                                 Append(classes, row_classes))

\* the loop of lines 176-187 over the rows after the header
\* (val holds what is formatted into the exception's message, locals the
\* row being read when it is raised)
RECURSIVE parse_rows(_, _, _)
parse_rows(rows, ids, classes) ==
    IF Len(rows) = 0 THEN [exc |-> "none", val |-> <<ids, classes>>]
    ELSE LET row == Head(rows)
             row_classes == Tail(row)
         IN IF Len(row) < 2
            THEN [exc |-> "ValueError",
                  val |-> [msg |-> "Bad row length", len |-> Len(row), row |-> row]]
            ELSE IF \E k \in 1..Len(row_classes) :
                        row_classes[k] \notin Range(POSSIBLE_CLASSES)
                 THEN [exc |-> "ValueError",
                       val |-> [msg |-> "Unknown class found among",
                                row_classes |-> row_classes],
                       locals |-> [row |-> row]]
            ELSE parse_rows(Tail(rows), Append(ids, row[1]),
                            Append(classes, row_classes))

\* parse_solution_file: the file is the list of its csv rows, the header row
\* first; next(solution_reader, None) of an empty file is None
parse_solution_file(file) ==
    IF Len(file) = 0 \/ Head(file) # HEADER
    THEN [exc |-> "ValueError",
          val |-> [msg |-> "Incorrect header found",
                   header |-> IF Len(file) = 0 THEN <<"None">> ELSE Head(file)]]
    ELSE parse_rows(Tail(file), <<>>, <<>>)

(***************************************************************************)
(* score(): its output.                                                    *)
(***************************************************************************)
\* a[idx] for a numpy value: a numpy scalar cannot be indexed
np_getitem_raises(a, idx) == np_isscalar(a) \/ idx >= Len(a.data)

np_getitem(a, idx) == a.data[idx + 1]

\* a float as simplejson writes it under ignore_nan=True: nan and inf
\* become null
json_token(x) == IF isfinite(x) THEN [tok |-> "number", v |-> x] ELSE [tok |-> "null"]

\* a float as print() writes it
str_token(x) ==
    IF isfinite(x) THEN [tok |-> "number", v |-> x]
    ELSE IF isnan(x) THEN [tok |-> "nan"] ELSE [tok |-> "inf"]

\* whether result[k][idx] raises IndexError for some class idx (lines 246, 254)
result_index_raises(classes, res) ==
    \E idx \in 0..(Len(classes) - 1) :
        \E k \in 1..3 : np_getitem_raises(res[k], idx)

\* lines 243-247, serialized by simplejson.dumps(..., ignore_nan=True)
json_result(classes, overall, res) ==
    [data |-> [k \in 1..3 |-> json_token(overall[k].data[1])],
     additionalData |->
         [i \in 1..Len(classes) |->
             [k \in 1..3 |-> json_token(np_getitem(res[k], i - 1))]]]

\* lines 252-256: the lines of the printed table
table_header == [kind |-> "table_header", text |-> <<"class", "pre", "rec", "f1">>]

table_rows(classes, res) ==
    [i \in 1..Len(classes) |->
        [kind |-> "table_row", class |-> classes[i],
         fields |-> [k \in 1..3 |-> str_token(np_getitem(res[k], i - 1))]]]

table_overall(overall) ==
    [kind |-> "table_row", class |-> "Overall",
     fields |-> [k \in 1..3 |-> str_token(overall[k].data[1])]]

\* row[1:] is a list: binarize encodes it as a multi-label item
as_items(classes) == [i \in 1..Len(classes) |-> PyList(classes[i])]

(***************************************************************************)
(* Spec: one run of score().  The two input files are read from disk when  *)
(* parse_solution_file is called; the state keeps what was parsed.         *)
(***************************************************************************)
IdSamples == {"id1", "id2"}

\* the class fields of a row: none, one known class, two known classes, one
\* class that is not in POSSIBLE_CLASSES
LabelListSamples == {<<>>, <<"HeLa">>, <<"A549", "HeLa">>, <<"MCF-7">>}

\* a csv row: a blank line, or an identifier followed by class fields
RowSamples == {<<>>} \cup {<<i>> \o ls : i \in IdSamples, ls \in LabelListSamples}

HeaderSamples == {HEADER, <<"id", "label">>}

Files ==
    {<<>>} \cup {<<h>> \o rows : h \in HeaderSamples,
                                rows \in SeqsUpTo(RowSamples, MaxFileRows)}

Init ==
    /\ pc = "binarizer"
    /\ output_file \in BOOLEAN
    /\ binarizer = <<>>
    /\ op = "score"
    /\ args = <<>>
    /\ ret = NoReturn
    /\ solution_ids = <<>>
    /\ solution_classes = <<>>
    /\ bin_solution = <<>>
    /\ prediction_ids = <<>>
    /\ prediction_classes = <<>>
    /\ bin_prediction = <<>>
    /\ overall_result = <<>>
    /\ result = <<>>
    /\ stdout = <<>>
    /\ json_file = <<>>
    /\ raised = "none"
    /\ exit_status = <<>>
    /\ pr_calls = 0
    /\ history = <<>>

\* an exception nobody catches ends the process with status 1
Uncaught(e) ==
    /\ raised' = e
    /\ exit_status' = <<1>>
    /\ pc' = "exit"

\* line 222
ConstructBinarizer ==
    /\ pc = "binarizer"
    /\ binarizer' = Binarizer(POSSIBLE_CLASSES)
    /\ pc' = "parse_solution"
    /\ history' = Append(history, "binarizer")
    /\ UNCHANGED <<harness_vars, output_file, solution_ids, solution_classes,
                   bin_solution, prediction_ids, prediction_classes,
                   bin_prediction, overall_result, result, stdout, json_file,
                   raised, exit_status, pr_calls>>

\* line 224
ParseSolution ==
    /\ pc = "parse_solution"
    /\ \E file \in Files :
           LET r == parse_solution_file(file)
           IN IF r.exc = "none"
              THEN /\ solution_ids' = r.val[1]
                   /\ solution_classes' = r.val[2]
                   /\ pc' = "bin_solution"
                   /\ UNCHANGED <<raised, exit_status>>
              ELSE /\ Uncaught(r)
                   /\ UNCHANGED <<solution_ids, solution_classes>>
    /\ history' = Append(history, "parse_solution")
    /\ UNCHANGED <<binarizer, harness_vars, output_file, bin_solution,
                   prediction_ids, prediction_classes, bin_prediction,
                   overall_result, result, stdout, json_file, pr_calls>>

\* line 225
BinarizeSolution ==
    /\ pc = "bin_solution"
    /\ LET r == binarize(binarizer, as_items(solution_classes))
       IN IF r.exc = "none"
          THEN /\ bin_solution' = r.val
               /\ pc' = "parse_predictions"
               /\ UNCHANGED <<raised, exit_status>>
          ELSE /\ Uncaught(r)
               /\ UNCHANGED bin_solution
    /\ history' = Append(history, "bin_solution")
    /\ UNCHANGED <<binarizer, harness_vars, output_file, solution_ids,
                   solution_classes, prediction_ids, prediction_classes,
                   bin_prediction, overall_result, result, stdout, json_file,
                   pr_calls>>

\* line 227
ParsePredictions ==
    /\ pc = "parse_predictions"
    /\ \E file \in Files :
           LET r == parse_solution_file(file)
           IN IF r.exc = "none"
              THEN /\ prediction_ids' = r.val[1]
                   /\ prediction_classes' = r.val[2]
                   /\ pc' = "check_ids"
                   /\ UNCHANGED <<raised, exit_status>>
              ELSE /\ Uncaught(r)
                   /\ UNCHANGED <<prediction_ids, prediction_classes>>
    /\ history' = Append(history, "parse_predictions")
    /\ UNCHANGED <<binarizer, harness_vars, output_file, solution_ids,
                   solution_classes, bin_solution, bin_prediction,
                   overall_result, result, stdout, json_file, pr_calls>>

\* A planted fault for the stage-ordering claim: the mismatch is reported but
\* the run is not ended.
CheckIds_no_exit ==
    /\ pc = "check_ids"
    /\ stdout' = IF solution_ids # prediction_ids
                 THEN Append(stdout,
                          [kind |-> "text",
                           text |-> "The IDs in the two files are unordered or non-equal."])
                 ELSE stdout
    /\ pc' = "bin_prediction"
    /\ history' = Append(history, "check_ids")
    /\ UNCHANGED <<binarizer, harness_vars, output_file, solution_ids,
                   solution_classes, bin_solution, prediction_ids,
                   prediction_classes, bin_prediction, overall_result, result,
                   json_file, raised, exit_status, pr_calls>>

\* lines 229-234: sys.exit(-1) ends the process with status 255
CheckIds ==
    /\ pc = "check_ids"
    /\ IF solution_ids # prediction_ids
       THEN /\ stdout' = stdout \o
                    <<[kind |-> "text",
                       text |-> "The IDs in the two files are unordered or non-equal."],
                      [kind |-> "ids_only_in_solution",
                       ids |-> Range(solution_ids) \ Range(prediction_ids)],
                      [kind |-> "ids_only_in_prediction",
                       ids |-> Range(prediction_ids) \ Range(solution_ids)]>>
            /\ exit_status' = <<255>>
            /\ pc' = "exit"
       ELSE /\ pc' = "bin_prediction"
            /\ UNCHANGED <<stdout, exit_status>>
    /\ history' = Append(history, "check_ids")
    /\ UNCHANGED <<binarizer, harness_vars, output_file, solution_ids,
                   solution_classes, bin_solution, prediction_ids,
                   prediction_classes, bin_prediction, overall_result, result,
                   json_file, raised, pr_calls>>

\* line 236
BinarizePrediction ==
    /\ pc = "bin_prediction"
    /\ LET r == binarize(binarizer, as_items(prediction_classes))
       IN IF r.exc = "none"
          THEN /\ bin_prediction' = r.val
               /\ pc' = "overall_result"
               /\ UNCHANGED <<raised, exit_status>>
          ELSE /\ Uncaught(r)
               /\ UNCHANGED bin_prediction
    /\ history' = Append(history, "bin_prediction")
    /\ UNCHANGED <<binarizer, harness_vars, output_file, solution_ids,
                   solution_classes, bin_solution, prediction_ids,
                   prediction_classes, overall_result, result, stdout,
                   json_file, pr_calls>>

\* line 237
OverallResult ==
    /\ pc = "overall_result"
    /\ overall_result' = precision_recall(bin_prediction, bin_solution, TRUE, "total").val
    /\ pr_calls' = pr_calls + 1
    /\ pc' = "result"
    /\ history' = Append(history, "overall_result")
    /\ UNCHANGED <<binarizer, harness_vars, output_file, solution_ids,
                   solution_classes, bin_solution, prediction_ids,
                   prediction_classes, bin_prediction, result, stdout,
                   json_file, raised, exit_status>>

\* line 239
ClassResult ==
    /\ pc = "result"
    /\ result' = precision_recall(bin_prediction, bin_solution, TRUE, "class").val
    /\ pr_calls' = pr_calls + 1
    /\ pc' = "output"
    /\ history' = Append(history, "result")
    /\ UNCHANGED <<binarizer, harness_vars, output_file, solution_ids,
                   solution_classes, bin_solution, prediction_ids,
                   prediction_classes, bin_prediction, overall_result, stdout,
                   json_file, raised, exit_status>>

\* lines 241-256, then the return from score(): status 0.  Indexing a numpy
\* scalar raises IndexError: in the json branch before anything is written,
\* in the table branch after the header line is printed.
Output ==
    /\ pc = "output"
    /\ IF result_index_raises(binarizer.classes, result)
       THEN /\ Uncaught([exc |-> "IndexError",
                         val |-> "invalid index to scalar variable."])
            /\ stdout' = IF output_file THEN stdout ELSE Append(stdout, table_header)
            /\ UNCHANGED json_file
       ELSE /\ IF output_file
               THEN LET doc == json_result(binarizer.classes, overall_result, result)
                    IN /\ json_file' = <<doc>>
                       /\ stdout' = Append(stdout, [kind |-> "json", doc |-> doc])
               ELSE /\ stdout' = (Append(stdout, table_header)
                                     \o table_rows(binarizer.classes, result))
                                     \o <<table_overall(overall_result)>>
                    /\ UNCHANGED json_file
            /\ exit_status' = <<0>>
            /\ pc' = "exit"
            /\ UNCHANGED raised
    /\ history' = Append(history, "output")
    /\ UNCHANGED <<binarizer, harness_vars, output_file, solution_ids,
                   solution_classes, bin_solution, prediction_ids,
                   prediction_classes, bin_prediction, overall_result, result,
                   pr_calls>>

Next ==
    \/ ConstructBinarizer
    \/ ParseSolution
    \/ BinarizeSolution
    \/ ParsePredictions
    \/ CheckIds
    \/ BinarizePrediction
    \/ OverallResult
    \/ ClassResult
    \/ Output

Spec == Init /\ [][Next]_vars

(***************************************************************************)
(* Properties of the Binarizer (under SpecBinarizer).                      *)
(***************************************************************************)
\* C1 (round trip): once bin_label has encoded a list of labels of the
\* vocabulary and unbin_label has decoded the result, the decoded labels are,
\* as a set, exactly the labels of the list, in whatever order and with
\* whatever repetitions the list enumerates them.
C1_RoundTrip ==
    (op = "unbin_label" /\ args.item.type = "list")
        => (ret.exc = "none" /\ Range(ret.val) = Range(args.item.v))

\* C10 (vocabulary determinism): the constructed Binarizer holds the distinct
\* class names of its argument in strictly ascending order, _index gives each
\* its 0-based position, _index and _reverse_index are inverse bijections
\* between the names and 0..n-1, and any other argument list with the same
\* set of names (another order, other repetitions) builds the same Binarizer.
C10_VocabularyDeterminism ==
    LET cs == binarizer.classes
        n == Len(binarizer.classes)
    IN /\ Range(cs) = Range(args.classes)
       /\ \A i \in 1..n : \A j \in 1..n : i < j => StrLess(cs[i], cs[j])
       /\ DOMAIN binarizer._index = Range(cs)
       /\ \A i \in 1..n : binarizer._index[cs[i]] = i - 1
       /\ DOMAIN binarizer._reverse_index = 0..(n - 1)
       /\ \A i \in 0..(n - 1) : binarizer._index[binarizer._reverse_index[i]] = i
       /\ \A c \in Range(cs) : binarizer._reverse_index[binarizer._index[c]] = c
       /\ \A other \in SeqsUpTo(ClassUniverse, MaxClasses) :
              Range(other) = Range(args.classes) => Binarizer(other) = binarizer

\* C10's case: an unsorted argument with a repeated name has been turned into
\* the sorted vocabulary of its two names.
C10_Witness ==
    /\ args.classes = <<"HeLa", "A549", "HeLa">>
    /\ binarizer.classes = <<"A549", "HeLa">>
    /\ binarizer._index["HeLa"] = 1
    /\ binarizer._reverse_index[0] = "A549"

(***************************************************************************)
(* Properties of precision_recall and jaccard_index (under SpecMetrics).   *)
(* A matrix is a list of at least one row: numpy reads the empty list as a *)
(* vector of shape (0,), which has no columns.                             *)
(***************************************************************************)
PrecisionRecallReturned ==
    op = "precision_recall" /\ ret.exc = "none" /\ Len(args.prediction) >= 1

\* the set of labels (1-based columns) a row marks
LabelsOf(row) == {k \in 1..Len(row) : row[k] = 1}

TotalIntersection ==
    SumSeq([r \in 1..Len(args.actual) |->
               Cardinality(LabelsOf(args.actual[r]) \cap LabelsOf(args.prediction[r]))])

TotalUnion ==
    SumSeq([r \in 1..Len(args.actual) |->
               Cardinality(LabelsOf(args.actual[r]) \cup LabelsOf(args.prediction[r]))])

IsScenario ==
    args.prediction = ScenarioPrediction /\ args.actual = ScenarioGold

\* C2 (safe division, precision and recall): in 'total' and in 'class' mode,
\* every returned precision whose TP+FP is 0 is exactly 0 and every returned
\* recall whose TP+FN is 0 is exactly 0; in 'class' mode for each class.
C2_SafeDivision ==
    PrecisionRecallReturned =>
        \A i \in 1..Len(ret.locals.truepos.data) :
            /\ (ret.locals.truepos.data[i] + ret.locals.falsepos.data[i] = 0)
                   => ret.val[1].data[i] = [num |-> 0, den |-> 1]
            /\ (ret.locals.truepos.data[i] + ret.locals.falseneg.data[i] = 0)
                   => ret.val[2].data[i] = [num |-> 0, den |-> 1]

\* C3 (safe division, F1): with include_f1, every returned f1 is
\* 2*precision*recall/(precision+recall) when precision+recall > 0 and
\* exactly 0 when precision+recall = 0.
C3_SafeF1 ==
    (PrecisionRecallReturned /\ args.include_f1) =>
        \A i \in 1..Len(ret.val[1].data) :
            LET p == ret.val[1].data[i]
                r == ret.val[2].data[i]
                f == ret.val[3].data[i]
            IN (p.den # 0 /\ r.den # 0) =>
                   IF p.num + r.num > 0
                   THEN /\ f.den # 0
                        /\ f.num * (p.num * r.den + r.num * p.den)
                               = f.den * 2 * p.num * r.num
                   ELSE f = [num |-> 0, den |-> 1]

\* C4 (perfect agreement): when the prediction matrix equals the gold matrix,
\* 'class' mode gives precision = recall = f1 = 1 for every class with a
\* positive and precision = recall = f1 = 0 for every class without one.
C4_PerfectAgreement ==
    (PrecisionRecallReturned /\ args.mode = "class" /\ args.include_f1
         /\ args.prediction = args.actual) =>
        \A j \in 1..Len(args.actual[1]) :
            LET v == IF \E r \in 1..Len(args.actual) : args.actual[r][j] = 1
                     THEN [num |-> 1, den |-> 1]
                     ELSE [num |-> 0, den |-> 1]
            IN /\ ret.val[1].data[j] = v
               /\ ret.val[2].data[j] = v
               /\ ret.val[3].data[j] = v

\* C5 (confusion counts): TP counts the cells predicted 1 with gold 1, FP the
\* cells predicted 1 with gold 0, FN the cells predicted 0 with gold 1; 'total'
\* mode counts over all cells into one triple, 'class' mode counts down each
\* column into one triple per class in vocabulary-index order; on the scenario
\* the per-class counts are A: 2,0,0  B: 0,1,1  C: 1,0,0.
C5_ConfusionCounts ==
    PrecisionRecallReturned =>
        LET P == args.prediction
            G == args.actual
            cols == 1..Len(args.prediction[1])
            cells(J) == (1..Len(args.prediction)) \X J
            TP(J) == Cardinality({rc \in cells(J) :
                                    P[rc[1]][rc[2]] = 1 /\ G[rc[1]][rc[2]] = 1})
            FP(J) == Cardinality({rc \in cells(J) :
                                    P[rc[1]][rc[2]] = 1 /\ G[rc[1]][rc[2]] = 0})
            FN(J) == Cardinality({rc \in cells(J) :
                                    P[rc[1]][rc[2]] = 0 /\ G[rc[1]][rc[2]] = 1})
        IN /\ args.mode = "total" =>
                  /\ ret.locals.truepos = [shape |-> <<>>, data |-> <<TP(cols)>>]
                  /\ ret.locals.falsepos = [shape |-> <<>>, data |-> <<FP(cols)>>]
                  /\ ret.locals.falseneg = [shape |-> <<>>, data |-> <<FN(cols)>>]
           /\ args.mode = "class" =>
                  /\ ret.locals.truepos.shape = <<Len(P[1])>>
                  /\ ret.locals.truepos.data = [j \in cols |-> TP({j})]
                  /\ ret.locals.falsepos.shape = <<Len(P[1])>>
                  /\ ret.locals.falsepos.data = [j \in cols |-> FP({j})]
                  /\ ret.locals.falseneg.shape = <<Len(P[1])>>
                  /\ ret.locals.falseneg.data = [j \in cols |-> FN({j})]
           /\ (args.mode = "class" /\ IsScenario) =>
                  /\ binarizer.classes = <<"A", "B", "C">>
                  /\ ret.locals.truepos.data = <<2, 0, 1>>
                  /\ ret.locals.falsepos.data = <<0, 1, 0>>
                  /\ ret.locals.falseneg.data = <<0, 1, 0>>

\* C5's case: 'class' mode has counted the scenario.
C5_Witness ==
    /\ op = "precision_recall"
    /\ args.mode = "class"
    /\ IsScenario
    /\ args.actual = <<<<1, 0, 0>>, <<1, 1, 0>>, <<0, 0, 1>>>>
    /\ args.prediction = <<<<1, 0, 0>>, <<1, 0, 0>>, <<0, 1, 1>>>>
    /\ ret.locals.truepos.data = <<2, 0, 1>>
    /\ ret.locals.falsepos.data[2] = 1
    /\ ret.locals.falseneg.data[2] = 1

\* C6 (micro-averaged Jaccard): when the total union is not zero,
\* jaccard_index returns the sum over the records of |gold n prediction|
\* divided once by the sum over the records of |gold u prediction|; on the
\* scenario that is 3/5 (the mean of the records' ratios would be 2/3).
C6_MicroJaccard ==
    (op = "jaccard_index" /\ TotalUnion > 0) =>
        /\ ret.exc = "none"
        /\ ret.val.den > 0
        /\ ret.val.num * TotalUnion = TotalIntersection * ret.val.den
        /\ IsScenario => ret.val = [num |-> 3, den |-> 5]

\* C6's case: jaccard_index has returned 3/5 on the scenario.
C6_Witness ==
    /\ op = "jaccard_index"
    /\ IsScenario
    /\ TotalIntersection = 3
    /\ TotalUnion = 5
    /\ ret.val = [num |-> 3, den |-> 5]

\* C8 (Jaccard identity): for a dataset with at least one record and at least
\* one record with a label, jaccard_index of the dataset with itself is
\* exactly 1.
C8_JaccardIdentity ==
    (/\ op = "jaccard_index"
     /\ args.actual = args.prediction
     /\ \E r \in 1..Len(args.actual) : LabelsOf(args.actual[r]) # {})
        => ret = [exc |-> "none", val |-> [num |-> 1, den |-> 1]]

\* C8's case: a dataset with a labelled and an unlabelled record has been
\* compared with itself.
C8_Witness ==
    /\ op = "jaccard_index"
    /\ args.actual = <<<<1, 1>>, <<0, 0>>>>
    /\ args.prediction = args.actual
    /\ ret.val = [num |-> 1, den |-> 1]

DisjointRecords ==
    \A r \in 1..Len(args.actual) :
        LabelsOf(args.actual[r]) \cap LabelsOf(args.prediction[r]) = {}

\* C9 as stated (Jaccard disjointness): whenever no record's gold labels share
\* a label with its prediction labels, jaccard_index returns 0.0.
C9_DisjointIsZero_Original ==
    (op = "jaccard_index" /\ DisjointRecords)
        => ret = [exc |-> "none", val |-> [num |-> 0, den |-> 1]]

\* C9 as amended: whenever no record's gold labels share a label with its
\* prediction labels and some record has a gold or a prediction label (the
\* total union is not zero), jaccard_index returns 0.0.
C9_DisjointIsZero ==
    (op = "jaccard_index" /\ DisjointRecords /\ TotalUnion > 0)
        => ret = [exc |-> "none", val |-> [num |-> 0, den |-> 1]]

\* C9's case: two records whose gold and prediction labels are disjoint have
\* been scored 0.
C9_Witness ==
    /\ op = "jaccard_index"
    /\ args.actual = <<<<1, 0>>, <<0, 0>>>>
    /\ args.prediction = <<<<0, 1>>, <<1, 1>>>>
    /\ ret = [exc |-> "none", val |-> [num |-> 0, den |-> 1]]

\* C13 (Jaccard, zero union): when every record has an empty gold label set
\* and an empty prediction label set, so that the accumulated union is 0,
\* jaccard_index returns no nan: on every such input it ends in the same
\* outcome, the ZeroDivisionError of the division of two ints.
C13_ZeroUnion ==
    (op = "jaccard_index" /\ TotalUnion = 0)
        => ret = [exc |-> "ZeroDivisionError", val |-> "division by zero"]

\* C13's case: two records of two classes, no label anywhere
C13_Witness ==
    /\ op = "jaccard_index"
    /\ args.actual = <<(<<0, 0>>), (<<0, 0>>)>>
    /\ args.prediction = <<(<<0, 0>>), (<<0, 0>>)>>
    /\ ret.exc = "ZeroDivisionError"

(***************************************************************************)
(* Properties of score() (under Spec).                                     *)
(***************************************************************************)
\* both files were parsed and the identifier check has run
IdsCompared == "check_ids" \in Range(history)

ScoreLines == {i \in 1..Len(stdout) :
                  stdout[i].kind \in {"table_header", "table_row", "json"}}

MetricsEmitted ==
    IF output_file
    THEN json_file # <<>> /\ \E i \in 1..Len(stdout) : stdout[i].kind = "json"
    ELSE \E i \in 1..Len(stdout) :
             stdout[i].kind = "table_row" /\ stdout[i].class = "Overall"

\* C7 (mismatch gate): a run that has compared the two identifier sequences
\* ends, when they differ (also as a permutation of one another), with the
\* identifier-mismatch message, a non-zero status, no precision_recall call
\* and no score output; and when they are element-wise equal, with the metric
\* output emitted and status zero.
C7_MismatchGate ==
    (pc = "exit" /\ IdsCompared) =>
        IF solution_ids # prediction_ids
        THEN /\ Len(stdout) >= 1
             /\ stdout[1].kind = "text"
             /\ exit_status \notin {<<>>, <<0>>}
             /\ pr_calls = 0
             /\ ScoreLines = {}
             /\ json_file = <<>>
        ELSE /\ MetricsEmitted
             /\ exit_status = <<0>>

\* C17 (empty vocabulary): constructing a Binarizer from an empty collection
\* of class names fails with an error: no vocabulary is built, and nothing is
\* encoded with it.
C17_EmptyVocabulary ==
    args.classes = <<>> => (op = "init" /\ ret.exc # "none")

\* the strings an exception of parse_solution_file writes into its message
NamedInMessage(e) ==
    CASE e.val.msg = "Unknown class found among" -> Range(e.val.row_classes)
      [] e.val.msg = "Bad row length" -> Range(e.val.row)
      [] OTHER -> Range(e.val.header)

\* C15 (unknown class): a run that validation ends because a record carries
\* a label that is not in the vocabulary ends with an unknown-class error
\* whose message names the offending label and the identifier of the record
\* it occurs in, and produces no metrics.
C15_UnknownClass ==
    (pc = "exit" /\ exit_status = <<1>> /\ raised.exc = "ValueError"
        /\ raised.val.msg = "Unknown class found among") =>
        /\ \E label \in NamedInMessage(raised) : label \notin Range(POSSIBLE_CLASSES)
        /\ raised.locals.row[1] \in NamedInMessage(raised)
        /\ pr_calls = 0
        /\ ScoreLines = {}
        /\ json_file = <<>>

\* the statements of score() in the order of the source text
ScoreSteps ==
    <<"binarizer", "parse_solution", "bin_solution", "parse_predictions",
      "check_ids", "bin_prediction", "overall_result", "result", "output">>

Executed(step) == step \in Range(history)

\* validation of both datasets has succeeded: both files were parsed with no
\* error and the identifier sequences were compared and found equal
BothValidated ==
    /\ Executed("check_ids")
    /\ solution_ids = prediction_ids
    /\ exit_status # <<255>>

\* a validation step has failed: parse_solution_file raised, or the
\* identifier sequences differ
ValidationFailed ==
    \/ exit_status = <<255>>
    \/ exit_status = <<1>> /\ raised.exc = "ValueError"

\* C18 as stated (stage ordering): the steps of a run occur in one fixed order
\* with none repeated; no dataset is binarized before validation of both
\* datasets (labels and identifier sequences) has succeeded; and after a
\* validation failure the run has ended with no binarization, aggregation,
\* scoring or emission step executed.
C18_StageOrdering_Original ==
    /\ history = SubSeq(ScoreSteps, 1, Len(history))
    /\ (Executed("bin_solution") \/ Executed("bin_prediction")) => BothValidated
    /\ ValidationFailed =>
           /\ pc = "exit"
           /\ \A step \in {"bin_solution", "bin_prediction", "overall_result",
                            "result", "output"} : ~Executed(step)

\* C18 as amended: the steps of a run occur in the fixed order parse gold,
\* binarize gold, parse prediction, compare identifiers, binarize prediction,
\* score overall, score per class, emit, with none repeated; the gold dataset
\* is binarized once its own parsing has succeeded; the prediction dataset is
\* not binarized, and nothing is aggregated, scored or emitted, before
\* validation of both datasets has succeeded; and a validation failure ends
\* the run at the failing step.
C18_StageOrdering ==
    /\ history = SubSeq(ScoreSteps, 1, Len(history))
    /\ Executed("bin_solution") =>
           /\ Len(solution_classes) = Len(solution_ids)
           /\ \A r \in 1..Len(solution_classes) :
                  /\ Len(solution_classes[r]) >= 1
                  /\ Range(solution_classes[r]) \subseteq Range(POSSIBLE_CLASSES)
    /\ \A step \in {"bin_prediction", "overall_result", "result", "output"} :
           Executed(step) => BothValidated
    /\ ValidationFailed =>
           /\ pc = "exit"
           /\ history[Len(history)]
                  \in {"parse_solution", "parse_predictions", "check_ids"}

\* a run that went through every step and emitted its result
C18_Witness ==
    /\ pc = "exit"
    /\ exit_status = <<0>>
    /\ history = ScoreSteps
    /\ MetricsEmitted

\* score() is about to call precision_recall (line 237 or line 239)
AtPrecisionRecall == pc \in {"overall_result", "result"}

\* C21 (shape at aggregation): every time score() reaches precision_recall,
\* the gold matrix and the prediction matrix have one shape, whose number of
\* rows is the common length of the two identifier sequences and whose number
\* of columns is the size of the vocabulary.
C21_ShapeAtAggregation ==
    AtPrecisionRecall =>
        /\ Len(solution_ids) = Len(prediction_ids)
        /\ np_asarray(bin_solution).shape = np_asarray(bin_prediction).shape
        /\ np_asarray(bin_solution).shape
               = <<Len(solution_ids), Len(binarizer.classes)>>

(***************************************************************************)
(* SpecBinarize: a vocabulary over any subset of the class names, and      *)
(* binarize called on any list of items whose labels are of the            *)
(* vocabulary.                                                             *)
(***************************************************************************)
\* the items binarize is called on: label lists over the vocabulary, in any
\* order and with repetitions, and single labels
VocabularyItems(self) ==
    {PyList(xs) : xs \in SeqsUpTo(Range(self.classes), MaxLabels)}
        \cup {PyStr(c) : c \in Range(self.classes)}

InitBinarize ==
    /\ \E classes \in SeqsUpTo(ClassUniverse, MaxClasses) :
           /\ binarizer = Binarizer(classes)
           /\ \E to_bin \in SeqsUpTo(VocabularyItems(Binarizer(classes)), MaxRows) :
                  args = [to_bin |-> to_bin]
    /\ op = "init"
    /\ ret = NoReturn
    /\ ScoreIdle

CallBinarize ==
    /\ op = "init"
    /\ ret' = binarize(binarizer, args.to_bin)
    /\ op' = "binarize"
    /\ UNCHANGED <<binarizer, args, score_vars>>

NextBinarize == CallBinarize

SpecBinarize == InitBinarize /\ [][NextBinarize]_vars

\* C11 (encoding): binarize returns a matrix with one row per item of its
\* input, in the input's order, and one column per class of the vocabulary;
\* the cell of row r and column i is 1 when the class at vocabulary index i
\* is among the labels of the r-th item, and 0 otherwise.
C11_Encoding ==
    op = "binarize" =>
        /\ ret.exc = "none"
        /\ Len(ret.val) = Len(args.to_bin)
        /\ \A r \in 1..Len(args.to_bin) :
               /\ Len(ret.val[r]) = Len(binarizer.classes)
               /\ \A i \in 1..Len(binarizer.classes) :
                      ret.val[r][i] =
                          IF binarizer.classes[i]
                                 \in Range(bin_label_keys(args.to_bin[r]))
                          THEN 1 ELSE 0

\* two items, the first with two labels out of alphabetical order, the
\* second with none, over a vocabulary of three classes
C11_Witness ==
    /\ op = "binarize"
    /\ binarizer.classes = <<"A549", "HEK 293", "HeLa">>
    /\ args.to_bin = <<PyList(<<"HeLa", "A549">>), PyList(<<>>)>>
    /\ ret.val = <<(<<1, 0, 1>>), (<<0, 0, 0>>)>>

(***************************************************************************)
(* Properties of the output of score() (under Spec).                       *)
(***************************************************************************)
\* the three serialized fields (precision, recall, f1) a finished run has
\* emitted for a class of the vocabulary (i >= 1) or for the overall line
\* (i = 0): in the json document or in the printed table
EmittedFields(i) ==
    IF output_file
    THEN IF i = 0 THEN json_file[1].data ELSE json_file[1].additionalData[i]
    ELSE LET name == IF i = 0 THEN "Overall" ELSE binarizer.classes[i]
             line == CHOOSE n \in 1..Len(stdout) :
                         stdout[n].kind = "table_row" /\ stdout[n].class = name
         IN stdout[line].fields

\* the denominators of the three fields: tp + fp, tp + fn, and for f1 the sum
\* precision + recall of the values the run computed
ZeroDenominator(i, k) ==
    LET counts == confusion_counts(bin_prediction, bin_solution,
                                   IF i = 0 THEN "None" ELSE "0")
        at(a) == IF i = 0 THEN a.data[1] ELSE a.data[i]
        res == IF i = 0 THEN overall_result ELSE result
    IN CASE k = 1 -> at(counts.truepos) + at(counts.falsepos) = 0
         [] k = 2 -> at(counts.truepos) + at(counts.falseneg) = 0
         [] k = 3 -> LET sum == float_add(at(res[1]), at(res[2]))
                     IN isnan(sum) \/ sum = Float(0)

\* C12 (numeric output): in the result a run has emitted, every precision,
\* recall or f1 field whose denominator was zero is written as the number 0,
\* never as nan, null or another token that is not a number.
C12_NumericOutput ==
    (pc = "exit" /\ exit_status = <<0>> /\ MetricsEmitted) =>
        \A i \in 0..Len(binarizer.classes) : \A k \in 1..3 :
            ZeroDenominator(i, k) =>
                EmittedFields(i)[k] = [tok |-> "number", v |-> Float(0)]

(***************************************************************************)
(* SpecShapes: precision_recall and jaccard_index are called on two binary *)
(* matrices whose numbers of rows and of columns are chosen independently. *)
(***************************************************************************)
\* the matrices of r rows that repeat one row of c cells
RepeatedRows(r, c) == {[i \in 1..r |-> v] : v \in [1..c -> {0, 1}]}

\* with at least one row and one column each
ShapedMatrices ==
    UNION {RepeatedRows(r, c) : r \in 1..MaxRows, c \in 1..MaxCols}

\* and with no row, or rows of no column
EmptyMatrices == {<<>>} \cup UNION {RepeatedRows(r, 0) : r \in 1..MaxRows}

InitShapes ==
    /\ binarizer = Binarizer(SubSeq(Alphabet, 1, MaxCols))
    /\ \/ \E p \in ShapedMatrices, a \in ShapedMatrices :
              args = [prediction |-> p, actual |-> a]
       \/ \E p \in ShapedMatrices \cup EmptyMatrices, a \in EmptyMatrices :
              args = [prediction |-> p, actual |-> a]
       \/ \E p \in EmptyMatrices, a \in ShapedMatrices :
              args = [prediction |-> p, actual |-> a]
    /\ op = "init"
    /\ ret = NoReturn
    /\ ScoreIdle

NextShapes == CallPrecisionRecall \/ CallJaccardIndex

SpecShapes == InitShapes /\ [][NextShapes]_vars

\* the two sequences differ in their number of records, or two records at
\* one position differ in the length of their vectors
LengthsDisagree ==
    \/ Len(args.actual) # Len(args.prediction)
    \/ \E k \in 1..Min2(Len(args.actual), Len(args.prediction)) :
           Len(args.actual[k]) # Len(args.prediction[k])

\* C14 (Jaccard, lengths): whenever the gold and the prediction sequence
\* have different numbers of records, or the two vectors of some record have
\* different lengths, jaccard_index raises the length-mismatch error and
\* returns no value.
C14_LengthMismatch ==
    (op = "jaccard_index" /\ LengthsDisagree)
        => ret = [exc |-> "ValueError", val |-> "Array lengths do not agree"]

\* C16 (precision_recall, dimensions): whenever the prediction and the gold
\* matrix differ in their number of rows or of columns, precision_recall
\* fails with an error and returns no precision, recall or counts.
C16_DimensionMismatch ==
    (op = "precision_recall"
        /\ np_asarray(args.prediction).shape # np_asarray(args.actual).shape)
        => (ret.exc # "none" /\ ret.locals = <<>>)

(***************************************************************************)
(* SpecRecord: a file of records is parsed by parse_solution_file, and the *)
(* class fields of one of its records are encoded by bin_label, as         *)
(* binarizer(solution_classes) does for each parsed record.                *)
(***************************************************************************)
InitRecord ==
    /\ binarizer = Binarizer(POSSIBLE_CLASSES)
    /\ \E file \in Files : args = [file |-> file]
    /\ op = "init"
    /\ ret = NoReturn
    /\ ScoreIdle

CallParseSolutionFile ==
    /\ op = "init"
    /\ ret' = parse_solution_file(args.file)
    /\ op' = "parse_solution_file"
    /\ UNCHANGED <<binarizer, args, score_vars>>

CallBinLabelOfRow ==
    /\ op = "init"
    /\ \E k \in 2..Len(args.file) :
           /\ Len(args.file[k]) >= 1
           /\ args' = [file |-> args.file, row |-> args.file[k]]
           /\ ret' = bin_label(binarizer, PyList(Tail(args.file[k])))
    /\ op' = "bin_label"
    /\ UNCHANGED <<binarizer, score_vars>>

NextRecord == CallParseSolutionFile \/ CallBinLabelOfRow

SpecRecord == InitRecord /\ [][NextRecord]_vars

\* a row that is an identifier and zero labels
ZeroLabelRow(row) == Len(row) = 1

\* a row parse_solution_file accepts under the claim: an identifier and any
\* number of labels of the catalog, zero included
ValidRecord(row) ==
    Len(row) >= 1 /\ Range(Tail(row)) \subseteq Range(POSSIBLE_CLASSES)

ZeroVector == [i \in 1..Len(POSSIBLE_CLASSES) |-> 0]

\* C19 as stated (zero-label records): a record that is an identifier and zero
\* labels is accepted by parsing, so that a file with the expected header
\* whose rows all have an identifier and labels of the catalog only is parsed
\* with no error, each row giving its identifier and its labels; and
\* bin_label encodes the labels of a zero-label record as the all-zero vector.
C19_ZeroLabelRecord_Original ==
    /\ (op = "parse_solution_file" /\ Len(args.file) >= 1
          /\ Head(args.file) = HEADER
          /\ \A k \in 2..Len(args.file) : ValidRecord(args.file[k])) =>
           /\ ret.exc = "none"
           /\ ret.val[1] = [k \in 1..(Len(args.file) - 1) |-> args.file[k + 1][1]]
           /\ ret.val[2] = [k \in 1..(Len(args.file) - 1) |-> Tail(args.file[k + 1])]
    /\ (op = "bin_label" /\ ZeroLabelRow(args.row)) =>
           ret = [exc |-> "none", val |-> ZeroVector]

\* C19 as amended: parse_solution_file does not accept a record that is an
\* identifier and zero labels: a file with the expected header whose first
\* row that is not an identifier with one or more labels of the catalog is a
\* zero-label record ends in the error 'Bad row length' for that row; and
\* bin_label encodes the labels of a zero-label record as the all-zero vector.
C19_ZeroLabelRecord ==
    /\ (op = "parse_solution_file" /\ Len(args.file) >= 1
          /\ Head(args.file) = HEADER) =>
           \A k \in 2..Len(args.file) :
               (/\ ZeroLabelRow(args.file[k])
                /\ \A j \in 2..(k - 1) :
                       ValidRecord(args.file[j]) /\ ~ZeroLabelRow(args.file[j]))
               => ret = [exc |-> "ValueError",
                         val |-> [msg |-> "Bad row length", len |-> 1,
                                  row |-> args.file[k]]]
    /\ (op = "bin_label" /\ ZeroLabelRow(args.row)) =>
           ret = [exc |-> "none", val |-> ZeroVector]

\* a file whose second record has an identifier and no label has been parsed
C19_Witness ==
    /\ op = "parse_solution_file"
    /\ args.file = <<HEADER, (<<"id1", "HeLa">>), (<<"id2">>)>>
    /\ ret.exc = "ValueError"
    /\ ret.val.msg = "Bad row length"

(***************************************************************************)
(* SpecMerge: the records of a dataset are split into blocks of rows; each *)
(* block is reduced on its own by the code of precision_recall (lines      *)
(* 38-45) and of jaccard_index (lines 82-94), and the partial results are  *)
(* added to the accumulators one block at a time, in any order.            *)
(***************************************************************************)
\* pairs (gold row, prediction row) over three classes: the three records of
\* the scenario of section 8, a record with no label and a record whose gold
\* and prediction labels are disjoint
RowPairSamples ==
    {<<ScenarioGold[k], ScenarioPrediction[k]>> : k \in 1..3}
        \cup {<<(<<0, 0, 0>>), (<<0, 0, 0>>)>>, <<(<<0, 1, 0>>), (<<1, 0, 1>>)>>}

\* the partitions of the rows 1..n into blocks
Partitions(n) ==
    {{b \in {{i \in 1..n : f[i] = k} : k \in 1..n} : b # {}} : f \in [1..n -> 1..n]}

\* the rows of a block, in the order of the dataset
BlockRows(matrix, block) ==
    [k \in 1..Cardinality(block) |->
        matrix[CHOOSE i \in block : Cardinality({j \in block : j <= i}) = k]]

AddCounts(x, y) ==
    [truepos |-> np_add(x.truepos, y.truepos),
     falsepos |-> np_add(x.falsepos, y.falsepos),
     falseneg |-> np_add(x.falseneg, y.falseneg)]

\* the accumulators before any block is merged
ZeroCounts(zero) == [truepos |-> zero, falsepos |-> zero, falseneg |-> zero]

InitMerge ==
    /\ binarizer = Binarizer(ScenarioVocabulary)
    /\ \E n \in 1..MaxDataRows :
           \E pairs \in [1..n -> RowPairSamples], blocks \in Partitions(n) :
               args = [actual |-> [k \in 1..n |-> pairs[k][1]],
                       prediction |-> [k \in 1..n |-> pairs[k][2]],
                       blocks |-> blocks]
    /\ op = "merge"
    /\ ret = [merged |-> {},
              total |-> ZeroCounts(np_scalar(0)),
              class |-> ZeroCounts(np_vector(<<0, 0, 0>>)),
              numerator |-> 0,
              denominator |-> 0]
    /\ ScoreIdle

MergeBlock ==
    /\ op = "merge"
    /\ \E block \in args.blocks \ ret.merged :
           LET prediction == BlockRows(args.prediction, block)
               actual == BlockRows(args.actual, block)
               partial == jaccard_loop(actual, prediction, 1, 0, 0)
           IN ret' = [merged |-> ret.merged \cup {block},
                      total |-> AddCounts(ret.total,
                                    confusion_counts(prediction, actual, "None")),
                      class |-> AddCounts(ret.class,
                                    confusion_counts(prediction, actual, "0")),
                      numerator |-> ret.numerator + partial.numerator,
                      denominator |-> ret.denominator + partial.denominator]
    /\ UNCHANGED <<binarizer, op, args, score_vars>>

NextMerge == MergeBlock

SpecMerge == InitMerge /\ [][NextMerge]_vars

\* C20 (merge order): when the records are split into any partition of row
\* blocks, each block is reduced on its own to its (TP, FP, FN) counts and to
\* its (intersection sum, union sum), and the partial results are added in
\* any order, then once every block is merged the accumulators equal what one
\* pass of precision_recall and of jaccard_index over the whole dataset
\* computes.
C20_MergeOrder ==
    (op = "merge" /\ ret.merged = args.blocks) =>
        LET whole == jaccard_loop(args.actual, args.prediction, 1, 0, 0)
        IN /\ ret.total = confusion_counts(args.prediction, args.actual, "None")
           /\ ret.class = confusion_counts(args.prediction, args.actual, "0")
           /\ ret.numerator = whole.numerator
           /\ ret.denominator = whole.denominator

\* the scenario of section 8, its first and third record in one block and
\* its second in another, both merged
C20_Witness ==
    /\ op = "merge"
    /\ args.actual = ScenarioGold
    /\ args.prediction = ScenarioPrediction
    /\ args.blocks = {{1, 3}, {2}}
    /\ ret.merged = args.blocks
    /\ ret.total.truepos.data = <<3>>
    /\ ret.class.falsepos.data = <<0, 1, 0>>
    /\ ret.numerator = 3
    /\ ret.denominator = 5

====
